---- MODULE Spec2Model ----
(***************************************************************************)
(* x402 payment orchestration of the CLAWD wallet:                         *)
(* PaymentHandler.executePayment (src/src/x402/payment.ts) with its        *)
(* collaborators X402Client (src/src/x402/client.ts), TAPSigner            *)
(* (src/src/tap/signing.ts), TAPCredentialManager (src/unnamed/part_005)   *)
(* and the MCP history tool (src/src/referral/index.ts).                   *)
(*                                                                         *)
(* Specifications:                                                         *)
(*   Spec           one executePayment call after another                  *)
(*   SpecSelect     X402Client.selectPaymentOption on every accepts array  *)
(*   SpecConcurrent executePayment calls of one wallet running together    *)
(*   SpecTool       the x402_payment_request tool around executePayment    *)
(*   SpecWallet     `clawd init` and the x402_redeem_referral tool         *)
(* Each specification moves its own variables and leaves the others at     *)
(* their idle values.                                                      *)
(*                                                                         *)
(* Representation.  A JavaScript number holding a USDC amount x is         *)
(* represented by the integer x * 10^6 (micro-USDC); NaN is the           *)
(* value NaN below.  A transaction hash is a positive integer, the empty   *)
(* string '' / an absent hash is NoHash.  An absent string field is "".    *)
(***************************************************************************)
EXTENDS Integers, Sequences, FiniteSets, TLC

(***************************************************************************)
(* Bounds of the model.                                                    *)
(***************************************************************************)
MaxCalls == 2
MaxClock == 2
MaxAccepts == 3
MaxConcurrent == 2
MaxWallets == 2
MaxUses == 2
MaxRequests == 2
MaxAttempts == 2
MaxSdkCalls == 3
MaxCantonOps == 2

(***************************************************************************)
(* Program constants.                                                      *)
(***************************************************************************)
PaymentRequired == 402
NaN == -1
NoHash == 0
MaxTransactionAmount == 10000000
DailyLimit == 50000000
DefaultLimit == 10

(***************************************************************************)
(* Inputs: URLs, HTTP bodies, 402 challenges.                              *)
(***************************************************************************)
Urls == {"https://svc/api"}

\* new URL(url).hostname
Hostname(url) == IF url = "https://svc/api" THEN "svc" ELSE "other"

Descriptions == {""}

\* An element of an accepts array.  kind "obj" is an object with the fields
\* below; "null" is a JSON null element; "zero" is the JSON number 0.
\* nonce is extra.nonce, "" when the option carries none.
Option(kind, scheme, network, amt, payTo, descr) ==
    [kind |-> kind, scheme |-> scheme, network |-> network,
     maxAmountRequired |-> amt, payTo |-> payTo, description |-> descr,
     nonce |-> ""]

OptCent == Option("obj", "exact", "base", "10000", "0xRECIPIENT", "")
OptSix  == Option("obj", "exact", "base", "6000000", "0xRECIPIENT", "six")
OptBig  == Option("obj", "exact", "base", "20000000", "0xBIG", "")
OptSol  == Option("obj", "exact", "solana", "6000000", "0xSOL", "")
OptUpto == Option("obj", "upto", "base", "10000", "0xUPTO", "")
OptAbc  == Option("obj", "exact", "base", "abc", "0xRECIPIENT", "")
OptUptoSol == Option("obj", "upto", "solana", "6000000", "0xSOL", "")
OptHex  == Option("obj", "exact", "base", "0x5B8D80", "0xRECIPIENT", "")
OptNonce == [OptCent EXCEPT !.nonce = "n-1"]
OptNull == Option("null", "", "", "", "", "")
OptZero == Option("zero", "", "", "", "", "")
NoOption == Option("none", "", "", "", "", "")

AcceptsLists ==
    { <<OptCent>>, <<OptSol, OptSix>>, <<OptUpto, OptSol>>, <<OptBig>>,
      <<OptAbc>>, <<OptNull>>, <<OptZero>>, <<OptHex>> }

\* An HTTP body.  kind: "absent" (undefined or ''), "text" (not JSON),
\* "null" (the JSON text null), "object" (a JSON object).  For an object:
\* hasVersion says whether x402Version is defined, acceptsKind is "absent",
\* "notarray" or "array", and error / message are its string fields.
Body(kind, hasVersion, acceptsKind, accepts, error, message) ==
    [kind |-> kind, hasVersion |-> hasVersion, acceptsKind |-> acceptsKind,
     accepts |-> accepts, error |-> error, message |-> message]

NoBody    == Body("absent", FALSE, "absent", <<>>, "", "")
TextBody  == Body("text", FALSE, "absent", <<>>, "", "")
NullBody  == Body("null", FALSE, "absent", <<>>, "", "")
DataBody  == Body("object", FALSE, "absent", <<>>, "", "")
ErrorBody == Body("object", FALSE, "absent", <<>>, "denied", "try later")
MessageBody == Body("object", FALSE, "absent", <<>>, "", "try later")
Challenge(acc) == Body("object", TRUE, "array", acc, "", "")

MalformedChallenges ==
    { NoBody, TextBody, NullBody,
      Body("object", FALSE, "array", <<OptCent>>, "", ""),
      Body("object", TRUE, "absent", <<>>, "", ""),
      Body("object", TRUE, "notarray", <<>>, "", ""),
      Challenge(<<>>) }

ChallengeBodies == MalformedChallenges \cup { Challenge(a) : a \in AcceptsLists }

PlainBodies == { NoBody, TextBody, NullBody, DataBody }

InitialStatuses == {200, 404, PaymentRequired}
RetryStatuses == {200, 299, 300, PaymentRequired}
RetryBodies == { NoBody, TextBody, DataBody, ErrorBody, MessageBody }

Response(status, body) == [status |-> status, body |-> body]
NoResponse == Response(0, NoBody)

InitialResponses ==
    { Response(s, b) : s \in InitialStatuses \ {PaymentRequired}, b \in PlainBodies }
    \cup { Response(PaymentRequired, b) : b \in ChallengeBodies }

(***************************************************************************)
(* Pure functions of X402Client.                                           *)
(***************************************************************************)
\* JSON.parse(body) throws a SyntaxError
JsonParseThrows(body) == body.kind \in {"absent", "text"}

parseX402Response_NoVersionCheck(body) ==
    /\ ~JsonParseThrows(body)
    /\ body.kind = "object"
    /\ body.acceptsKind = "array"

\* X402Client.parseX402Response: the parsed body, or null (FALSE here means
\* null was returned).
parseX402Response(body) ==
    /\ ~JsonParseThrows(body)
    /\ body.kind = "object"          \* parsed.x402Version of null throws, caught
    /\ body.hasVersion
    /\ body.acceptsKind = "array"

\* Array.prototype.find: the least of the indices whose element satisfies
\* the predicate, 0 when there is none.
First(indices) ==
    IF indices = {} THEN 0
    ELSE CHOOSE i \in indices : \A j \in indices : i <= j

IsBaseExact(opt) == opt.scheme = "exact" /\ opt.network = "base"
IsExact(opt) == opt.scheme = "exact"

FindBaseExact(list) ==
    First({ i \in 1..Len(list) : IsBaseExact(list[i]) })

FindExact(list) ==
    First({ i \in 1..Len(list) : IsExact(list[i]) })

\* Reading opt.scheme of a null element throws a TypeError: the first find
\* reaches a null element before it reaches a base/exact option.
SelectThrows(list) ==
    LET baseExact == FindBaseExact(list)
    IN  \E i \in 1..Len(list) :
            /\ list[i].kind = "null"
            /\ (baseExact = 0 \/ i < baseExact)

selectPaymentOption_AnyExact(list) ==
    IF FindExact(list) # 0 THEN list[FindExact(list)]
    ELSE IF Len(list) > 0 /\ list[1].kind = "obj" THEN list[1]
    ELSE NoOption

selectPaymentOption_ExactOnly(list) ==
    IF FindBaseExact(list) # 0 THEN list[FindBaseExact(list)]
    ELSE IF FindExact(list) # 0 THEN list[FindExact(list)]
    ELSE NoOption

\* X402Client.selectPaymentOption: NoOption stands for null.
selectPaymentOption(list) ==
    LET baseExact == FindBaseExact(list)
        anyExact  == FindExact(list)
    IN  IF baseExact # 0 THEN list[baseExact]
        ELSE IF anyExact # 0 THEN list[anyExact]
        ELSE IF Len(list) > 0 /\ list[1].kind = "obj" THEN list[1]
        ELSE NoOption

\* parseFloat of the amount strings the challenges carry: the longest
\* decimal prefix ("0x5B8D80" gives 0), NaN when there is none.
ParseFloat(s) ==
    CASE s = "10000" -> 10000
      [] s = "6000000" -> 6000000
      [] s = "20000000" -> 20000000
      [] s = "0x5B8D80" -> 0
      [] OTHER -> NaN

\* X402Client.parseAmount: parseFloat(s) / 10^decimals, in micro-USDC.
parseAmount(maxAmountRequired) == ParseFloat(maxAmountRequired)

\* BigInt(amountBaseUnits) throws a SyntaxError
BigIntThrows(s) == s \notin {"10000", "6000000", "20000000", "0x5B8D80"}

\* BigInt(amountBaseUnits): the whole string as an integer literal, a 0x
\* prefix included
BigInt(s) ==
    CASE s = "10000" -> 10000
      [] s = "6000000" -> 6000000
      [] s = "20000000" -> 20000000
      [] s = "0x5B8D80" -> 6000000
      [] OTHER -> 0

(***************************************************************************)
(* Collaborators.                                                          *)
(***************************************************************************)
\* TransactionHistory: the daily total the Spend-Limit Guard reads.
RECURSIVE SumAmounts(_)
SumAmounts(h) ==
    IF h = <<>> THEN 0
    ELSE (IF Head(h).status = "success" THEN Head(h).amount ELSE 0) + SumAmounts(Tail(h))

getDailySpend(h) == SumAmounts(h)

\* SpendLimits.validateTransaction: per-transaction cap and daily cap.
validateTransaction(amt, h) ==
    LET overTx == amt > MaxTransactionAmount
        overDay == getDailySpend(h) + amt > DailyLimit
    IN  [valid |-> ~overTx /\ ~overDay,
         errors |-> IF overTx THEN "Amount exceeds maximum transaction limit"
                    ELSE IF overDay THEN "Daily limit exceeded"
                    ELSE ""]

\* BalanceChecker.hasSufficientBalance
hasSufficientBalance(bal, required) == required # NaN /\ bal >= required

\* TransactionHistory.getHistory(limit): newest first, at most limit records.
RECURSIVE Reverse(_)
Reverse(s) == IF s = <<>> THEN <<>> ELSE Append(Reverse(Tail(s)), Head(s))

getHistory(h, limit) ==
    LET r == Reverse(h)
    IN  IF Len(r) <= limit THEN r ELSE SubSeq(r, 1, limit)

(***************************************************************************)
(* TAP credentials and signer.                                             *)
(* agent: agent.json exists; expiresAt: expiry of attestation.json, or     *)
(* NoAttestation when the file is missing; key: the Ed25519 key in the     *)
(* keychain ("none", "ok", "bad" = present but unusable for signing,       *)
(* "error" = the keychain itself fails).                                   *)
(***************************************************************************)
NoAttestation == 0

\* the stored attestation expires at the last instant of the model's clock
AttestationExpiry == MaxClock

TapState(agent, expiresAt, key) == [agent |-> agent, expiresAt |-> expiresAt, key |-> key]

TapConfigs ==
    { TapState(FALSE, NoAttestation, "none"),
      TapState(TRUE, AttestationExpiry, "ok"),
      TapState(TRUE, AttestationExpiry, "bad"),
      TapState(TRUE, AttestationExpiry, "error") }

\* TAPKeychain.getPrivateKey: "throws", "null" or "key"
getPrivateKey(t) ==
    IF t.key = "error" THEN "throws"
    ELSE IF t.key = "none" THEN "null"
    ELSE "key"

\* TAPCredentialManager.loadCredentials: "throws", "null" or "credentials"
loadCredentials(t, clock) ==
    IF getPrivateKey(t) = "throws" THEN "throws"
    ELSE IF ~t.agent \/ t.expiresAt = NoAttestation \/ getPrivateKey(t) = "null" THEN "null"
    ELSE IF t.expiresAt <= clock THEN "null"
    ELSE "credentials"

\* TAPSigner.buildHeaders: "throws", "null" or "headers"
buildHeaders(t, clock) ==
    IF loadCredentials(t, clock) = "throws" THEN "throws"
    ELSE IF loadCredentials(t, clock) = "null" THEN "null"
    ELSE IF getPrivateKey(t) = "null" THEN "null"
    ELSE IF t.key = "bad" THEN "throws"      \* signRequest: ed.signAsync rejects
    ELSE "headers"

(***************************************************************************)
(* State.                                                                  *)
(***************************************************************************)
VARIABLES
    pc,           \* position of the executePayment call in flight
    call,         \* its arguments and locals
    result,       \* what the call delivered to its caller
    history,      \* TransactionHistory: the appended TransactionRecords
    auditLog,     \* AuditLogger: the kinds of the entries written
    balance,      \* on-chain USDC balance of the wallet
    txCount,      \* number of transactions the chain has mined for the wallet
    now,          \* Date.now()
    calls,        \* number of executePayment calls started
    initialized,  \* PaymentHandler.initialize has run
    tap,          \* TAP credentials on disk and in the keychain
    accepts,      \* X402Client.selectPaymentOption: its argument
    selected,     \* X402Client.selectPaymentOption: what it returned
    inflight,     \* concurrent executePayment calls: position and locals of each
    maxAmount,    \* x402_payment_request: the caller's maxAmount (0: not given)
    toolResult,   \* x402_payment_request: what the tool answered
    keychainKey,  \* the wallet's private key in the OS keychain (NoKey: none)
    config,       \* config.wallet.address of the config file (NoConfig: no file)
    walletsGenerated, \* number of wallets WalletManager.generateWallet created
    lastInit,     \* the last run of `clawd init`: its flag, the state it found
    codes,        \* ReferralManager: codes.json
    treasuryFunds, \* USDC balance of the treasury wallet
    payouts,      \* the treasury transfers made for redemptions
    refResult,    \* what x402_redeem_referral answered last
    dispatchLog,  \* the CallTool requests the server handled, with their handler
    revocation,   \* what happened to the TAP identity since tap_revoke
    tapResult,    \* what the last TAP tool answered
    cantonEnv,        \* the connection key the environment spells now
    attempts,         \* the Canton connection attempts started so far
    sdkInstance,      \* the attempt whose SDK is shared, or NoAttempt
    sdkInitPromise,   \* the attempt getSDK hands out while connecting, or NoAttempt
    sdkConnectionKey, \* the key recorded for sdkInstance, or NoConnectionKey
    sdkCalls,         \* the getSDK calls made, with what each was handed
    redeems,          \* the x402_redeem_referral calls in flight, one per slot
    cantonKeychain,   \* the Canton party credentials in the OS keychain
    cantonParty,      \* config.canton.partyId as saved
    configuredAs,     \* the partyId the last successful canton_configure was given
    cantonOps         \* the Canton operations run, with the party each ran as

selVars == <<accepts, selected>>
conVars == <<inflight>>
toolVars == <<maxAmount, toolResult>>
walVars == <<keychainKey, config, walletsGenerated, lastInit, codes,
             treasuryFunds, payouts, refResult>>

\* the state of the operations other than the sequential executePayment
dispVars == <<dispatchLog>>

\* the variables of the server's other subsystems
tapVars == <<revocation, tapResult>>

cantonVars == <<cantonEnv, attempts, sdkInstance, sdkInitPromise,
                sdkConnectionKey, sdkCalls>>

redVars == <<redeems>>

partyVars == <<cantonKeychain, cantonParty, configuredAs, cantonOps>>

extVars == <<dispVars, tapVars, cantonVars, redVars, partyVars>>

aux == <<selVars, conVars, toolVars, walVars, extVars>>

vars == <<pc, call, result, history, auditLog, balance, txCount, now, calls,
          initialized, tap, aux>>

NoTransfer == [success |-> FALSE, txHash |-> NoHash, error |-> ""]

NoCall ==
    [url |-> "", description |-> "", initialResponse |-> NoResponse,
     paymentOption |-> NoOption, amount |-> 0, transferResult |-> NoTransfer,
     tapHeaders |-> FALSE, paymentResponse |-> NoResponse, error |-> "",
     trace |-> <<>>, historyAtStart |-> 0]

\* kind: "none" (no call has ended), "returned" (a PaymentResult was
\* returned) or "threw" (the promise rejected).
Result(kind, success, response, error, amountPaid, service, txHash) ==
    [kind |-> kind, success |-> success, response |-> response, error |-> error,
     amountPaid |-> amountPaid, service |-> service, txHash |-> txHash]

NoResult == Result("none", FALSE, NoBody, "", 0, "", NoHash)
Failure(error) == Result("returned", FALSE, NoBody, error, 0, "", NoHash)
Rejected(error) == Result("threw", FALSE, NoBody, error, 0, "", NoHash)

\* One entry of call.trace: a collaborator was called.  ev names the
\* collaborator ("request", "limit", "balance", "audit", "transfer", "tap",
\* "history"), kind its argument or answer, ok is FALSE when the call threw
\* (for "transfer": when the transfer did not succeed), n is the amount
\* passed (for "tap": the time of the call).
Event(ev, kind, ok, n) == [ev |-> ev, kind |-> kind, ok |-> ok, n |-> n]

LogN(ev, kind, ok, n) == [call EXCEPT !.trace = Append(@, Event(ev, kind, ok, n))]

Log(ev, kind, ok) == LogN(ev, kind, ok, 0)

InitialBalances == {0, 6005000}

\* selectPaymentOption has not been called / it threw a TypeError
Unselected == Option("unset", "", "", "", "", "")
Thrown == Option("threw", "", "", "", "", "")

\* The nonce of a payment proof: the challenge's extra.nonce (text), or
\* `clawd-${Date.now()}` (time).
Nonce(text, time) == [text |-> text, time |-> time]
NoNonce == Nonce("", 0)

\* const nonce = paymentOption.extra?.nonce || `clawd-${Date.now()}`
\* (line 199)
ProofNonce(opt, clock) ==
    IF opt.nonce # "" THEN Nonce(opt.nonce, 0) ELSE Nonce("clawd-", clock)

\* the executePayment calls the MCP server may run at the same time
Procs == 1..MaxConcurrent

\* position and locals of one concurrent executePayment call; passed: the
\* spend-limit check accepted its amount; overlapped: the calls that had
\* passed the check and were still in flight when this one passed it
\* nonce: the nonce of the payment proof it built.
Proc(p, url, opt, amt, tr, passed, overlapped) ==
    [pc |-> p, url |-> url, description |-> "", paymentOption |-> opt,
     amount |-> amt, transferResult |-> tr, passed |-> passed,
     overlapped |-> overlapped, nonce |-> NoNonce]

IdleProc == Proc("idle", "", NoOption, 0, NoTransfer, FALSE, {})

SelIdle ==
    /\ accepts = <<>>
    /\ selected = Unselected

ConIdle == inflight = [p \in Procs |-> IdleProc]

ToolIdle ==
    /\ maxAmount = 0
    /\ toolResult = NoResult

\* no private key stored / no config file
NoKey == 0
NoConfig == ""

\* wallet.address of the k-th generated private key (an EIP-55 mixed-case
\* address)
Address(k) ==
    CASE k = 1 -> "0xAa01"
      [] k = 2 -> "0xBb02"
      [] OTHER -> "0xCc03"

\* String.prototype.toLowerCase on the addresses
ToLowerCase(a) ==
    CASE a = "0xAa01" -> "0xaa01"
      [] a = "0xBb02" -> "0xbb02"
      [] a = "0xCc03" -> "0xcc03"
      [] OTHER -> a

\* the wallet tools and the CLI have not been used: an initialized wallet,
\* no referral codes
WalIdle ==
    /\ keychainKey = 1
    /\ config = Address(1)
    /\ walletsGenerated = 1
    /\ lastInit = [ran |-> FALSE, force |-> FALSE, key |-> NoKey, config |-> NoConfig]
    /\ codes = <<>>
    /\ treasuryFunds = 0
    /\ payouts = <<>>
    /\ refResult = [success |-> FALSE, error |-> ""]

\* no operation other than the sequential executePayment is under way
DispIdle == dispatchLog = <<>>

\* the TAP identity was never revoked and no TAP tool was called
TapIdle ==
    /\ revocation = [returned |-> FALSE, registered |-> FALSE,
                     verified |-> FALSE, attached |-> FALSE]
    /\ tapResult = ""

\* sdk-client.ts was loaded and getSDK never called
CantonIdle ==
    /\ cantonEnv = "false:devnet"
    /\ attempts = <<>>
    /\ sdkInstance = 0
    /\ sdkInitPromise = 0
    /\ sdkConnectionKey = ""
    /\ sdkCalls = <<>>

\* no x402_redeem_referral call is in flight
RedIdle ==
    redeems = [p \in 1..MaxConcurrent |->
                  [pc |-> "idle", code |-> "", snapshot |-> <<>>, payout |-> 0,
                   result |-> [success |-> FALSE, error |-> ""]]]

\* Canton was never configured
PartyIdle ==
    /\ cantonKeychain = [partyId |-> "", privateKey |-> FALSE]
    /\ cantonParty = ""
    /\ configuredAs = ""
    /\ cantonOps = <<>>

ExtIdle == DispIdle /\ TapIdle /\ CantonIdle /\ RedIdle /\ PartyIdle

AuxIdle == SelIdle /\ ConIdle /\ ToolIdle /\ WalIdle /\ ExtIdle

Init ==
    /\ AuxIdle
    /\ pc = "idle"
    /\ call = NoCall
    /\ result = NoResult
    /\ history = <<>>
    /\ auditLog = <<>>
    /\ balance \in InitialBalances
    /\ txCount = 0
    /\ now = 1
    /\ calls = 0
    /\ initialized = FALSE
    /\ tap \in TapConfigs

(***************************************************************************)
(* Environment and other tools.                                            *)
(***************************************************************************)
Tick ==
    /\ pc \in {"idle", "done"}
    /\ now < MaxClock
    /\ now' = now + 1
    /\ UNCHANGED <<pc, call, result, history, auditLog, balance, txCount, calls,
                   initialized, tap, aux>>

\* PaymentHandler.initialize
initialize ==
    /\ pc = "idle"
    /\ ~initialized
    /\ initialized' = TRUE
    /\ UNCHANGED <<pc, call, result, history, auditLog, balance, txCount, now,
                   calls, tap, aux>>

ListLimits == {1, DefaultLimit}

\* MCPTools.transactionHistory(limit): the answer of the
\* x402_transaction_history tool in the current state (it changes nothing).
transactionHistory(limit) ==
    LET h == getHistory(history, limit)
    IN  [success |-> TRUE, transactions |-> h, count |-> Len(h)]

(***************************************************************************)
(* PaymentHandler.executePayment, one action per await.                    *)
(***************************************************************************)
\* return <res> from inside the try block or the catch block
Return(res, c) ==
    /\ pc' = "done"
    /\ result' = res
    /\ call' = c

\* an exception reaches the catch block of executePayment (line 308)
Throw(msg, c) ==
    /\ pc' = "catch"
    /\ call' = [c EXCEPT !.error = msg]
    /\ UNCHANGED result

\* control moves to the next await at position p
Goto(p, c) ==
    /\ pc' = p
    /\ call' = c
    /\ UNCHANGED result

\* AuditLogger.logAction(kind, ...): the entry is written (ok), or the call
\* rejects and nothing is written.
LogAction(kind, ok) ==
    auditLog' = IF ok THEN Append(auditLog, kind) ELSE auditLog

\* the call in flight after it awaited logAction(kind, ...)
Audited(kind, ok) == Log("audit", kind, ok)

AuditThrows(c) == Throw("audit log failed", c)

\* The caller invokes executePayment(url, method, body, description).
executePayment ==
    /\ pc \in {"idle", "done"}
    /\ calls < MaxCalls
    /\ \E url \in Urls, description \in Descriptions :
          call' = [NoCall EXCEPT !.url = url, !.description = description,
                                 !.historyAtStart = Len(history)]
    /\ pc' = "request"
    /\ result' = NoResult
    /\ calls' = calls + 1
    /\ UNCHANGED <<history, auditLog, balance, txCount, now, initialized, tap, aux>>

\* Step 2: is a payment required?  (line 120)
PaymentIsRequired(status) == status = PaymentRequired

\* Steps 1-5 up to the await of validateAmount (lines 117-155).
InitialRequest ==
    /\ pc = "request"
    /\ \/ Throw("fetch failed", Log("request", "initial", FALSE))
       \/ \E r \in InitialResponses :
            LET c == [Log("request", "initial", TRUE) EXCEPT !.initialResponse = r]
                b == r.body
            IN  IF ~PaymentIsRequired(r.status)
                THEN IF b.kind = "absent"
                     THEN Return(Result("returned", TRUE, NullBody, "", 0, "", NoHash), c)
                     ELSE IF JsonParseThrows(b)
                     THEN Throw("Unexpected token", c)
                     ELSE Return(Result("returned", TRUE, b, "", 0, "", NoHash), c)
                ELSE IF b.kind = "absent"
                THEN Return(Failure("Payment required but no payment details provided"), c)
                ELSE IF ~parseX402Response(b) \/ Len(b.accepts) = 0
                THEN Return(Failure("Invalid x402 response format"), c)
                ELSE IF SelectThrows(b.accepts)
                THEN Throw("Cannot read properties of null", c)
                ELSE IF selectPaymentOption(b.accepts) = NoOption
                THEN Return(Failure("No compatible payment option found"), c)
                ELSE /\ pc' = "validate"
                     /\ call' = [c EXCEPT
                            !.paymentOption = selectPaymentOption(b.accepts),
                            !.amount = parseAmount(selectPaymentOption(b.accepts).maxAmountRequired)]
                     /\ UNCHANGED result
    /\ UNCHANGED <<history, auditLog, balance, txCount, now, calls, initialized,
                   tap, aux>>

LimitRejects_Never(validation) == FALSE

\* Step 5: the guard rejects the amount (line 156)
LimitRejects(validation) == ~validation.valid

\* Step 5: await this.validateAmount(amount) (lines 155-161).
ValidateAmount ==
    /\ pc = "validate"
    /\ \/ Throw("limits unavailable", LogN("limit", "threw", FALSE, call.amount))
       \/ LET v == validateTransaction(call.amount, history)
              c == LogN("limit", IF v.valid THEN "valid" ELSE "invalid", TRUE, call.amount)
          IN  IF LimitRejects(v)
              THEN Return(Failure(v.errors), c)
              ELSE /\ pc' = "balance"
                   /\ call' = c
                   /\ UNCHANGED result
    /\ UNCHANGED <<history, auditLog, balance, txCount, now, calls, initialized,
                   tap, aux>>

BalanceRejects_Never(hasBalance) == FALSE

\* Step 6: the balance does not cover the amount (line 165)
BalanceRejects(hasBalance) == ~hasBalance

\* Step 6: await this.checkBalance(amount) (lines 164-170, 331-338).
CheckBalance ==
    /\ pc = "balance"
    /\ IF ~initialized
       THEN Throw("Payment handler not initialized", call)
       ELSE \/ Throw("balance unavailable", LogN("balance", "threw", FALSE, call.amount))
            \/ LET hasBalance == hasSufficientBalance(balance, call.amount)
                   c == LogN("balance", IF hasBalance THEN "sufficient" ELSE "insufficient",
                             TRUE, call.amount)
               IN  IF BalanceRejects(hasBalance)
                   THEN Return(Failure("Insufficient balance"), c)
                   ELSE /\ pc' = "approve"
                        /\ call' = c
                        /\ UNCHANGED result
    /\ UNCHANGED <<history, auditLog, balance, txCount, now, calls, initialized,
                   tap, aux>>

\* Step 7: await AuditLogger.logAction('payment_approved') (line 173)
LogApproved ==
    /\ pc = "approve"
    /\ \E ok \in BOOLEAN :
          /\ LogAction("payment_approved", ok)
          /\ IF ok THEN Goto("transfer", Audited("payment_approved", TRUE))
                   ELSE AuditThrows(Audited("payment_approved", FALSE))
    /\ UNCHANGED <<history, balance, txCount, now, calls, initialized, tap, aux>>

\* PaymentHandler.executeUSDCTransfer (lines 60-104): never throws.
\* outcome: "mined" (receipt.status = 1), "reverted" (receipt.status = 0) or
\* "failed" (an exception was caught: no provider, BigInt, RPC error).
TransferOutcomes == {"mined", "reverted", "failed"}

executeUSDCTransfer(outcome, amountBaseUnits) ==
    IF ~initialized THEN [success |-> FALSE, txHash |-> NoHash,
                          error |-> "Payment handler not initialized"]
    ELSE IF BigIntThrows(amountBaseUnits)
    THEN [success |-> FALSE, txHash |-> NoHash, error |-> "Cannot convert to a BigInt"]
    ELSE IF outcome = "mined"
    THEN [success |-> TRUE, txHash |-> txCount + 1, error |-> ""]
    ELSE IF outcome = "reverted"
    THEN [success |-> FALSE, txHash |-> txCount + 1, error |-> "Transaction reverted"]
    ELSE [success |-> FALSE, txHash |-> NoHash, error |-> "rpc error"]

\* the transfer did not go through (line 186)
TransferFailed(transferResult) ==
    ~transferResult.success \/ transferResult.txHash = NoHash

\* Step 7: await this.executeUSDCTransfer(payTo, maxAmountRequired)
\* (lines 180-186).
Transfer ==
    /\ pc = "transfer"
    /\ \E outcome \in TransferOutcomes :
          LET amt == call.paymentOption.maxAmountRequired
              r == executeUSDCTransfer(outcome, amt)
              c == [LogN("transfer", call.paymentOption.payTo, r.success, BigInt(amt))
                        EXCEPT !.transferResult = r]
          IN  /\ outcome = "mined" => balance >= BigInt(amt)
              /\ balance' = IF r.success THEN balance - BigInt(amt) ELSE balance
              /\ txCount' = IF r.txHash # NoHash THEN txCount + 1 ELSE txCount
              /\ IF TransferFailed(r) THEN Goto("transferFailed", c)
                                      ELSE Goto("tap", c)
    /\ UNCHANGED <<history, auditLog, now, calls, initialized, tap, aux>>

\* await AuditLogger.logAction('payment_failed') and return (lines 187-195)
LogTransferFailed ==
    /\ pc = "transferFailed"
    /\ \E ok \in BOOLEAN :
          /\ LogAction("payment_failed", ok)
          /\ IF ok THEN Return(Failure("USDC transfer failed"), Audited("payment_failed", TRUE))
                   ELSE AuditThrows(Audited("payment_failed", FALSE))
    /\ UNCHANGED <<history, balance, txCount, now, calls, initialized, tap, aux>>

\* Steps 8-9: build the Authorization header, await TAPSigner.buildHeaders
\* (lines 199-216, 222).
BuildTapHeaders ==
    /\ pc = "tap"
    /\ LET h == buildHeaders(tap, now)
       IN  IF h = "headers"
           THEN Goto("tapIncluded", [LogN("tap", h, TRUE, now) EXCEPT !.tapHeaders = TRUE])
           ELSE IF h = "null"
           THEN Goto("retry", LogN("tap", h, TRUE, now))
           ELSE Goto("tapSkipped", LogN("tap", h, FALSE, now))
    /\ UNCHANGED <<history, auditLog, balance, txCount, now, calls, initialized,
                   tap, aux>>

\* await AuditLogger.logAction('tap_headers_included') inside the inner try
\* (lines 217-222)
LogTapIncluded ==
    /\ pc = "tapIncluded"
    /\ \E ok \in BOOLEAN :
          /\ LogAction("tap_headers_included", ok)
          /\ IF ok THEN Goto("retry", Audited("tap_headers_included", TRUE))
                   ELSE Goto("tapSkipped", Audited("tap_headers_included", FALSE))
    /\ UNCHANGED <<history, balance, txCount, now, calls, initialized, tap, aux>>

\* await AuditLogger.logAction('tap_headers_skipped') in the inner catch
\* (lines 222-228)
LogTapSkipped ==
    /\ pc = "tapSkipped"
    /\ \E ok \in BOOLEAN :
          /\ LogAction("tap_headers_skipped", ok)
          /\ IF ok THEN Goto("retry", Audited("tap_headers_skipped", TRUE))
                   ELSE AuditThrows(Audited("tap_headers_skipped", FALSE))
    /\ UNCHANGED <<history, balance, txCount, now, calls, initialized, tap, aux>>

\* the retried request was accepted (line 240)
IsSuccessStatus(status) == status >= 200 /\ status < 300

\* Step 10: await X402Client.makeRequest(url, {method, body, headers})
\* (lines 231-240).
RetryRequest ==
    /\ pc = "retry"
    /\ \/ Throw("fetch failed", Log("request", "retry", FALSE))
       \/ \E s \in RetryStatuses, b \in RetryBodies :
            LET c == [Log("request", "retry", TRUE) EXCEPT
                          !.paymentResponse = Response(s, b)]
            IN  IF IsSuccessStatus(s) THEN Goto("record", c)
                                      ELSE Goto("merchantFailed", c)
    /\ UNCHANGED <<history, auditLog, balance, txCount, now, calls, initialized,
                   tap, aux>>

\* the Transaction built at lines 242-251
Transaction(c, clock) ==
    [id |-> c.transferResult.txHash,
     timestamp |-> clock,
     service |-> Hostname(c.url),
     description |-> IF c.description # "" THEN c.description
                     ELSE IF c.paymentOption.description # ""
                     THEN c.paymentOption.description
                     ELSE "x402 payment",
     amount |-> c.amount,
     currency |-> "USDC",
     txHash |-> c.transferResult.txHash,
     status |-> "success"]

\* Step 11: await TransactionHistory.addTransaction(transaction) (line 253)
AddTransaction ==
    /\ pc = "record"
    /\ \/ /\ history' = Append(history, Transaction(call, now))
          /\ Goto("executed", Log("history", "add", TRUE))
       \/ /\ history' = history
          /\ Throw("history unavailable", Log("history", "add", FALSE))
    /\ UNCHANGED <<auditLog, balance, txCount, now, calls, initialized, tap, aux>>

\* responseData of lines 262-269
ResponseData(body) ==
    IF body.kind = "absent" THEN NullBody ELSE body

\* await AuditLogger.logAction('payment_executed') and return (lines 254-277)
LogExecuted ==
    /\ pc = "executed"
    /\ \E ok \in BOOLEAN :
          /\ LogAction("payment_executed", ok)
          /\ IF ok THEN Return(Result("returned", TRUE,
                                     ResponseData(call.paymentResponse.body), "",
                                     call.amount, Hostname(call.url),
                                     call.transferResult.txHash),
                              Audited("payment_executed", TRUE))
                   ELSE AuditThrows(Audited("payment_executed", FALSE))
    /\ UNCHANGED <<history, balance, txCount, now, calls, initialized, tap, aux>>

\* `Payment failed with status ${status}`
StatusText(status) ==
    CASE status = 300 -> "Payment failed with status 300"
      [] status = 402 -> "Payment failed with status 402"
      [] OTHER -> "Payment failed with status N"

\* errorMsg of lines 289-301
ErrorMessage(response) ==
    LET b == response.body
    IN  IF b.kind = "absent" \/ JsonParseThrows(b) \/ b.kind = "null"
        THEN StatusText(response.status)
        ELSE IF b.error # "" THEN b.error
        ELSE IF b.message # "" THEN b.message
        ELSE StatusText(response.status)

LogMerchantFailed_NoAudit ==
    /\ pc = "merchantFailed"
    /\ Return(Failure(ErrorMessage(call.paymentResponse)), call)
    /\ UNCHANGED <<auditLog, history, balance, txCount, now, calls, initialized,
                   tap, aux>>

\* await AuditLogger.logAction('payment_failed') and return (lines 281-306)
LogMerchantFailed ==
    /\ pc = "merchantFailed"
    /\ \E ok \in BOOLEAN :
          /\ LogAction("payment_failed", ok)
          /\ IF ok THEN Return(Failure(ErrorMessage(call.paymentResponse)),
                              Audited("payment_failed", TRUE))
                   ELSE AuditThrows(Audited("payment_failed", FALSE))
    /\ UNCHANGED <<history, balance, txCount, now, calls, initialized, tap, aux>>

\* the catch block: await AuditLogger.logAction('payment_error') and return
\* (lines 308-318); a rejection here leaves executePayment as an exception.
CatchLog ==
    /\ pc = "catch"
    /\ \E ok \in BOOLEAN :
          /\ LogAction("payment_error", ok)
          /\ IF ok THEN Return(Failure(call.error), Audited("payment_error", TRUE))
                   ELSE Return(Rejected("audit log failed"), Audited("payment_error", FALSE))
    /\ UNCHANGED <<history, balance, txCount, now, calls, initialized, tap, aux>>

Next ==
    \/ Tick
    \/ initialize
    \/ executePayment
    \/ InitialRequest
    \/ ValidateAmount
    \/ CheckBalance
    \/ LogApproved
    \/ Transfer
    \/ LogTransferFailed
    \/ BuildTapHeaders
    \/ LogTapIncluded
    \/ LogTapSkipped
    \/ RetryRequest
    \/ AddTransaction
    \/ LogExecuted
    \/ LogMerchantFailed
    \/ CatchLog

Spec == Init /\ [][Next]_vars

TypeOK ==
    /\ pc \in {"idle", "request", "validate", "balance", "approve", "transfer",
               "transferFailed", "tap", "tapIncluded", "tapSkipped", "retry",
               "record", "executed", "merchantFailed", "catch", "done",
               "returned"}
    /\ calls \in 0..MaxCalls
    /\ now \in 1..MaxClock
    /\ balance >= 0

(***************************************************************************)
(* X402Client.selectPaymentOption on its own: every accepts array of at    *)
(* most MaxAccepts elements is handed to the selector.                     *)
(***************************************************************************)
payVars == <<pc, call, result, history, auditLog, balance, txCount, now, calls,
             initialized, tap>>

\* no executePayment call was ever made: an unfunded wallet without TAP
\* credentials
PaymentIdle ==
    /\ pc = "idle"
    /\ call = NoCall
    /\ result = NoResult
    /\ history = <<>>
    /\ auditLog = <<>>
    /\ balance = 0
    /\ txCount = 0
    /\ now = 1
    /\ calls = 0
    /\ initialized = FALSE
    /\ tap = TapState(FALSE, NoAttestation, "none")

SelectElements == {OptCent, OptSix, OptSol, OptUpto, OptUptoSol, OptNull, OptZero}

SelectInputs ==
    UNION { [1..n -> SelectElements] : n \in 0..MaxAccepts }

SelectInit ==
    /\ PaymentIdle
    /\ ConIdle /\ ToolIdle /\ WalIdle /\ ExtIdle
    /\ accepts \in SelectInputs
    /\ selected = Unselected

\* const option = X402Client.selectPaymentOption(accepts)
SelectOption ==
    /\ selected = Unselected
    /\ selected' = IF SelectThrows(accepts) THEN Thrown
                   ELSE selectPaymentOption(accepts)
    /\ UNCHANGED <<accepts, payVars, conVars, toolVars, walVars, extVars>>

SelectNext == SelectOption

SpecSelect == SelectInit /\ [][SelectNext]_vars

(***************************************************************************)
(* Concurrent executePayment calls of one wallet.  The MCP server starts   *)
(* a handler per tool request and awaits nothing between requests, so the  *)
(* calls interleave at their awaits.  The steps kept are the ones that     *)
(* read or write the daily total: the spend-limit check, the transfer, the *)
(* retried request and the history append.                                 *)
(***************************************************************************)
\* a record of an earlier payment of the day
PriorTransaction(i) ==
    [id |-> i, timestamp |-> 0, service |-> "svc", description |-> "x402 payment",
     amount |-> MaxTransactionAmount, currency |-> "USDC", txHash |-> i,
     status |-> "success"]

\* 40 USDC were spent earlier today
PriorHistory == [i \in 1..4 |-> PriorTransaction(i)]

ConcurrentOptions == {OptCent, OptSix, OptNonce}

ConcurrentBalance == 20000000

ConcurrentInit ==
    /\ pc = "idle"
    /\ call = NoCall
    /\ result = NoResult
    /\ history \in {<<>>, PriorHistory}
    /\ auditLog = <<>>
    /\ balance = ConcurrentBalance
    /\ txCount = Len(history)
    /\ now = 1
    /\ calls = 0
    /\ initialized = TRUE
    /\ tap = TapState(FALSE, NoAttestation, "none")
    /\ SelIdle /\ ToolIdle /\ WalIdle /\ ExtIdle
    /\ inflight = [p \in Procs |-> IdleProc]

conOthers == <<pc, call, result, auditLog, calls, initialized, tap, selVars,
               toolVars, walVars, extVars>>

\* the calls that passed the spend-limit check and have not ended
PassedInFlight == { q \in Procs : inflight[q].passed /\ inflight[q].pc # "done" }

\* a tool request starts executePayment; steps 1-4 select the option
ConcurrentStart(p) ==
    /\ inflight[p].pc = "idle"
    /\ \E url \in Urls, opt \in ConcurrentOptions :
          inflight' = [inflight EXCEPT ![p] =
              Proc("validate", url, opt, parseAmount(opt.maxAmountRequired),
                   NoTransfer, FALSE, {})]
    /\ UNCHANGED <<history, balance, txCount, now, conOthers>>

\* await this.validateAmount(amount) (lines 155-161)
ConcurrentValidate(p) ==
    /\ inflight[p].pc = "validate"
    /\ LET v == validateTransaction(inflight[p].amount, history)
       IN  inflight' = [inflight EXCEPT ![p] =
               IF LimitRejects(v) THEN [@ EXCEPT !.pc = "done"]
               ELSE [@ EXCEPT !.pc = "transfer", !.passed = TRUE,
                              !.overlapped = PassedInFlight \ {p}]]
    /\ UNCHANGED <<history, balance, txCount, now, conOthers>>

\* await this.executeUSDCTransfer(...) and, once it succeeded, the nonce of
\* the Authorization header (lines 180-200)
ConcurrentTransfer(p) ==
    /\ inflight[p].pc = "transfer"
    /\ \E outcome \in TransferOutcomes :
          LET amt == inflight[p].paymentOption.maxAmountRequired
              r == executeUSDCTransfer(outcome, amt)
          IN  /\ outcome = "mined" => balance >= BigInt(amt)
              /\ balance' = IF r.success THEN balance - BigInt(amt) ELSE balance
              /\ txCount' = IF r.txHash # NoHash THEN txCount + 1 ELSE txCount
              /\ inflight' = [inflight EXCEPT ![p] =
                     IF TransferFailed(r)
                     THEN [@ EXCEPT !.transferResult = r, !.pc = "done"]
                     ELSE [@ EXCEPT !.transferResult = r, !.pc = "retry",
                                    !.nonce = ProofNonce(inflight[p].paymentOption, now)]]
    /\ UNCHANGED <<history, now, conOthers>>

\* await X402Client.makeRequest(...) with the payment proof (lines 231-240)
ConcurrentRetry(p) ==
    /\ inflight[p].pc = "retry"
    /\ \E s \in RetryStatuses :
          inflight' = [inflight EXCEPT ![p].pc =
                          IF IsSuccessStatus(s) THEN "record" ELSE "done"]
    /\ UNCHANGED <<history, balance, txCount, now, conOthers>>

\* await TransactionHistory.addTransaction(transaction) (lines 242-253)
ConcurrentRecord(p) ==
    /\ inflight[p].pc = "record"
    /\ history' = Append(history, Transaction(inflight[p], now))
    /\ inflight' = [inflight EXCEPT ![p].pc = "done"]
    /\ UNCHANGED <<balance, txCount, now, conOthers>>

\* time passes between the steps of the calls
ConcurrentTick ==
    /\ now < MaxClock
    /\ now' = now + 1
    /\ UNCHANGED <<inflight, history, balance, txCount, conOthers>>

ConcurrentNext ==
    \/ ConcurrentTick
    \/ \E p \in Procs :
        \/ ConcurrentStart(p)
        \/ ConcurrentValidate(p)
        \/ ConcurrentTransfer(p)
        \/ ConcurrentRetry(p)
        \/ ConcurrentRecord(p)

SpecConcurrent == ConcurrentInit /\ [][ConcurrentNext]_vars

(***************************************************************************)
(* The x402_payment_request tool: MCPTools.paymentRequest around           *)
(* executePayment (src/src/referral/index.ts lines 880-908).               *)
(***************************************************************************)
\* maxAmount of the tool arguments in micro-USDC: not given, 1 USDC, or more
\* than the per-transaction cap
MaxAmounts == {0, 1000000, 20000000}

ToolInit ==
    /\ pc = "idle"
    /\ call = NoCall
    /\ result = NoResult
    /\ history = <<>>
    /\ auditLog = <<>>
    /\ balance \in InitialBalances
    /\ txCount = 0
    /\ now = 1
    /\ calls = 0
    /\ initialized = FALSE
    /\ tap = TapState(TRUE, AttestationExpiry, "ok")
    /\ SelIdle /\ ConIdle /\ WalIdle /\ ExtIdle
    /\ maxAmount = 0
    /\ toolResult = NoResult

\* MCPTools.paymentRequest up to the call of handler.executePayment
\* (lines 880-898): maxAmount, when given, is validated against the spend
\* limits; then a handler is created, initialized and started.
paymentRequest ==
    /\ pc \in {"idle", "returned"}
    /\ calls < MaxCalls
    /\ calls' = calls + 1
    /\ \E max \in MaxAmounts :
          /\ maxAmount' = max
          /\ \/ /\ max # 0
                /\ pc' = "returned"
                /\ toolResult' = Failure("limits unavailable")
                /\ UNCHANGED <<call, result, initialized>>
             \/ IF max # 0 /\ ~validateTransaction(max, history).valid
                THEN /\ pc' = "returned"
                     /\ toolResult' = Failure(validateTransaction(max, history).errors)
                     /\ UNCHANGED <<call, result, initialized>>
                ELSE /\ \E url \in Urls, description \in Descriptions :
                           call' = [NoCall EXCEPT !.url = url,
                                                  !.description = description,
                                                  !.historyAtStart = Len(history)]
                     /\ pc' = "request"
                     /\ result' = NoResult
                     /\ initialized' = TRUE
                     /\ toolResult' = NoResult
    /\ UNCHANGED <<history, auditLog, balance, txCount, now, tap, selVars, conVars,
                   walVars, extVars>>

\* MCPTools.paymentRequest after executePayment ended (lines 900-907): its
\* result is returned, an exception becomes {success: false, error}.
paymentRequestReturn ==
    /\ pc = "done"
    /\ pc' = "returned"
    /\ toolResult' = IF result.kind = "threw" THEN Failure(result.error) ELSE result
    /\ UNCHANGED <<call, result, history, auditLog, balance, txCount, now, calls,
                   initialized, tap, selVars, conVars, maxAmount, walVars,
                   extVars>>

ToolNext ==
    \/ paymentRequest
    \/ paymentRequestReturn
    \/ InitialRequest
    \/ ValidateAmount
    \/ CheckBalance
    \/ LogApproved
    \/ Transfer
    \/ LogTransferFailed
    \/ BuildTapHeaders
    \/ LogTapIncluded
    \/ LogTapSkipped
    \/ RetryRequest
    \/ AddTransaction
    \/ LogExecuted
    \/ LogMerchantFailed
    \/ CatchLog

SpecTool == ToolInit /\ [][ToolNext]_vars

(***************************************************************************)
(* The CLI command `clawd init` (src/src/cli/index.ts) and the             *)
(* x402_redeem_referral tool (MCPTools.redeemReferral with ReferralManager *)
(* of src/unnamed/part_007 and Treasury of src/src/referral/treasury.ts).  *)
(***************************************************************************)
DefaultAmount == 15

\* a ReferralCode of codes.json; redeemedBy "" is null; expired says that
\* expiresAt is set and lies in the past
ReferralCode(code, maxUses, useCount, redeemedBy, expired) ==
    [code |-> code, amount |-> DefaultAmount, maxUses |-> maxUses,
     useCount |-> useCount, redeemedAt |-> 0, redeemedBy |-> redeemedBy,
     txHash |-> NoHash, expired |-> expired]

\* the codes the operator created: a single-use code, a code for MaxUses
\* redemptions and a code that has expired
CodeBook ==
    << ReferralCode("SOLO", 1, 0, "", FALSE),
       ReferralCode("TEAM", MaxUses, 0, "", FALSE),
       ReferralCode("OLD", 1, 0, "", TRUE) >>

\* the code argument of the tool
CodeInputs == {"SOLO", "team", "OLD", "NOPE"}

\* code.toUpperCase().trim()
Normalize(code) == IF code = "team" THEN "TEAM" ELSE code

\* this.codes.get(normalizedCode): its position in the book, 0 when absent
Lookup(book, code) ==
    First({ i \in 1..Len(book) : book[i].code = Normalize(code) })

\* ReferralManager.validateCode
validateCode(book, code) ==
    LET i == Lookup(book, code)
    IN  IF i = 0 THEN [valid |-> FALSE, error |-> "Invalid referral code"]
        ELSE IF book[i].useCount >= book[i].maxUses
        THEN [valid |-> FALSE, error |-> "Code has already been redeemed"]
        ELSE IF book[i].expired
        THEN [valid |-> FALSE, error |-> "Code has expired"]
        ELSE [valid |-> TRUE, error |-> ""]

\* ReferralManager.markRedeemed: redeemedAt, redeemedBy and txHash are
\* written only when the use count reaches maxUses
markRedeemed(book, code, redeemedBy, txHash, clock) ==
    LET i == Lookup(book, code)
        n == book[i].useCount + 1
    IN  IF i = 0 THEN book
        ELSE [book EXCEPT ![i] =
                 IF n >= book[i].maxUses
                 THEN [@ EXCEPT !.useCount = n, !.redeemedAt = clock,
                                !.redeemedBy = redeemedBy, !.txHash = txHash]
                 ELSE [@ EXCEPT !.useCount = n]]

\* ReferralManager.hasAddressRedeemed
hasAddressRedeemed(book, address) ==
    \E i \in 1..Len(book) :
        /\ book[i].redeemedBy # ""
        /\ ToLowerCase(book[i].redeemedBy) = ToLowerCase(address)

InitialTreasury == 2 * DefaultAmount

\* a machine on which neither the CLI nor the server has run; the operator's
\* codes are in place
WalletInit ==
    /\ PaymentIdle
    /\ SelIdle /\ ConIdle /\ ToolIdle /\ ExtIdle
    /\ keychainKey = NoKey
    /\ config = NoConfig
    /\ walletsGenerated = 0
    /\ lastInit = [ran |-> FALSE, force |-> FALSE, key |-> NoKey, config |-> NoConfig]
    /\ codes = CodeBook
    /\ treasuryFunds = InitialTreasury
    /\ payouts = <<>>
    /\ refResult = [success |-> FALSE, error |-> ""]

walOthers == <<payVars, selVars, conVars, toolVars, extVars>>

\* what the init command did: "exit" (already initialized), "keychain"
\* (saveToKeychain threw), "config" (initializeConfig threw), "done"
InitOutcomes == {"keychain", "config", "done"}

\* the guard of the init command (line 24)
AlreadyInitialized(configExists, keyExists, force) ==
    configExists /\ keyExists /\ ~force

\* `clawd init [--force]` (src/src/cli/index.ts lines 18-36)
init ==
    \E force \in BOOLEAN, outcome \in InitOutcomes :
        /\ lastInit' = [ran |-> TRUE, force |-> force, key |-> keychainKey,
                        config |-> config]
        /\ IF AlreadyInitialized(config # NoConfig, keychainKey # NoKey, force)
           THEN UNCHANGED <<keychainKey, config, walletsGenerated>>
           ELSE /\ walletsGenerated < MaxWallets
                /\ walletsGenerated' = walletsGenerated + 1
                /\ keychainKey' = IF outcome = "keychain" THEN keychainKey
                                  ELSE walletsGenerated + 1
                /\ config' = IF outcome = "done" THEN Address(walletsGenerated + 1)
                             ELSE config
        /\ UNCHANGED <<codes, treasuryFunds, payouts, refResult, walOthers>>

RefResult(success, error) == [success |-> success, error |-> error]

\* a treasury transfer made for a redemption; reported: the tool answered
\* success: true
Payout(to, code, reported) == [to |-> to, code |-> code, reported |-> reported]

\* MCPTools.redeemReferral (index.ts lines 1124-1220).  loaded: the treasury
\* key is available; sent: the treasury transfer went through; logged: the
\* audit entry was written.
redeemReferral ==
    \E code \in CodeInputs, loaded \in BOOLEAN, sent \in BOOLEAN, logged \in BOOLEAN :
        LET fail(msg) == /\ refResult' = RefResult(FALSE, msg)
                         /\ UNCHANGED <<codes, treasuryFunds, payouts>>
            i == Lookup(codes, code)
        IN  /\ IF config = NoConfig
               THEN fail("Configuration not found")
               ELSE IF ~validateCode(codes, code).valid
               THEN fail(validateCode(codes, code).error)
               ELSE IF hasAddressRedeemed(codes, config)
               THEN fail("This wallet has already redeemed a referral code")
               ELSE IF ~loaded
               THEN fail("Treasury not configured. Contact support.")
               ELSE IF treasuryFunds < codes[i].amount
               THEN fail("Treasury has insufficient balance. Please try again later.")
               ELSE IF ~sent
               THEN fail(IF logged THEN "Transfer failed" ELSE "audit log failed")
               ELSE /\ treasuryFunds' = treasuryFunds - codes[i].amount
                    /\ codes' = markRedeemed(codes, code, config,
                                              Len(payouts) + 1, now)
                    /\ payouts' = Append(payouts, Payout(config, Normalize(code), logged))
                    /\ refResult' = IF logged THEN RefResult(TRUE, "")
                                    ELSE RefResult(FALSE, "audit log failed")
            /\ UNCHANGED <<keychainKey, config, walletsGenerated, lastInit, walOthers>>

WalletNext ==
    \/ init
    \/ redeemReferral

SpecWallet == WalletInit /\ [][WalletNext]_vars

(***************************************************************************)
(* The MCP server's ListTools and CallTool handlers.                       *)
(***************************************************************************)
\* the names of the TOOLS array, which the ListTools handler returns whole
TOOLS ==
    { "x402_payment_request", "x402_check_balance", "x402_get_address",
      "x402_transaction_history", "x402_discover_services",
      "x402_get_spending_controls", "x402_update_spending_controls",
      "x402_redeem_referral",
      "tap_register_agent", "tap_verify_identity", "tap_get_status",
      "tap_revoke",
      "clawd_domain_search", "clawd_domain_purchase", "clawd_domain_confirm",
      "clawd_domain_list", "clawd_dns_list", "clawd_dns_create",
      "clawd_dns_delete", "clawd_domain_nameservers",
      "clawd_domain_auth_code",
      "canton_check_balance", "canton_list_holdings",
      "canton_get_party_info", "canton_configure", "canton_transfer",
      "canton_transaction_history" }

ListTools == TOOLS

\* what the default branch of the CallTool switch throws
UnknownTool(name) == "Unknown tool: " \o name

\* the names a client may send: every advertised one and one that is not
ToolRequests == TOOLS \cup {"no_such_tool"}

\* the switch of the CallTool handler: the MCPTools method a name is
\* dispatched to, "" for a name that reaches the default branch
Dispatch(name) ==
    CASE name = "x402_payment_request"          -> "paymentRequest"
      [] name = "x402_check_balance"            -> "checkBalance"
      [] name = "x402_get_address"              -> "getAddress"
      [] name = "x402_transaction_history"      -> "transactionHistory"
      [] name = "x402_discover_services"        -> "discoverServices"
      [] name = "x402_get_spending_controls"    -> "getSpendingControls"
      [] name = "x402_update_spending_controls" -> "updateSpendingControls"
      [] name = "x402_redeem_referral"          -> "redeemReferral"
      [] name = "tap_register_agent"            -> "registerAgent"
      [] name = "tap_verify_identity"           -> "verifyIdentity"
      [] name = "tap_get_status"                -> "getTapStatus"
      [] name = "tap_revoke"                    -> "revokeAgent"
      [] name = "clawd_domain_search"           -> "domainSearch"
      [] name = "clawd_domain_purchase"         -> "domainPurchase"
      [] name = "clawd_domain_confirm"          -> "domainConfirm"
      [] name = "clawd_domain_list"             -> "domainList"
      [] name = "clawd_dns_list"                -> "dnsList"
      [] name = "clawd_dns_create"              -> "dnsCreate"
      [] name = "clawd_dns_delete"              -> "dnsDelete"
      [] name = "clawd_domain_nameservers"      -> "domainNameservers"
      [] name = "clawd_domain_auth_code"        -> "domainAuthCode"
      [] OTHER                                  -> ""

\* one handled CallTool request: the method it ran, whether the method
\* threw, and the error text and isError flag of the response
ToolCall(name, method, threw) ==
    [ name    |-> name,
      method  |-> method,
      error   |-> IF method = "" THEN UnknownTool(name)
                  ELSE IF threw THEN "tool failed" ELSE "",
      isError |-> method = "" \/ threw ]

dispOthers == <<payVars, selVars, conVars, toolVars, walVars, tapVars,
                cantonVars, redVars, partyVars>>

DispatchInit ==
    /\ PaymentIdle
    /\ SelIdle /\ ConIdle /\ ToolIdle /\ WalIdle /\ TapIdle /\ CantonIdle
    /\ RedIdle /\ PartyIdle
    /\ dispatchLog = <<>>

\* the CallTool request handler: the switch on the tool's name, the default
\* branch that throws, and the catch that turns any exception into an
\* isError response
CallTool ==
    \E name \in ToolRequests, threw \in BOOLEAN :
        /\ Len(dispatchLog) < MaxRequests
        /\ dispatchLog' =
               Append(dispatchLog, ToolCall(name, Dispatch(name), threw))
        /\ UNCHANGED dispOthers

DispatchNext == CallTool

SpecDispatch == DispatchInit /\ [][DispatchNext]_vars

(***************************************************************************)
(* What the audit entries of executePayment say about the transfer.        *)
(***************************************************************************)
\* the txHash field of the details handed to AuditLogger.logAction with an
\* entry of that kind by call c: only payment_executed carries one
AuditTxHash(kind, c) ==
    IF kind = "payment_executed" THEN c.transferResult.txHash ELSE NoHash

(***************************************************************************)
(* The TAP identity tools: tap_register_agent, tap_verify_identity and     *)
(* tap_revoke, and the payments that read the credentials they store.      *)
(***************************************************************************)
NeverRevoked ==
    [returned |-> FALSE, registered |-> FALSE, verified |-> FALSE,
     attached |-> FALSE]

\* TAPRegistry.revokeAgent has just returned
JustRevoked == [NeverRevoked EXCEPT !.returned = TRUE]

\* how the registry's DELETE can end
DeleteOutcomes == {"ok", "error status", "threw"}

\* how keytar.deletePassword can end
KeyDeleteOutcomes == {"deleted", "throws"}

\* how fs.rm(TAP_DIR, {recursive: true}) can end while the directory exists
RmOutcomes == {"removed", "failed"}

\* TAPCredentialManager.deleteAll: the key is deleted first; a keychain error
\* leaves deleteAll before the directory is touched; an error of fs.rm is
\* swallowed
deleteAll(t, keyOutcome, rmOutcome) ==
    IF keyOutcome = "throws" THEN [tap |-> t, threw |-> TRUE]
    ELSE IF rmOutcome = "removed"
    THEN [tap |-> TapState(FALSE, NoAttestation, "none"), threw |-> FALSE]
    ELSE [tap |-> [t EXCEPT !.key = "none"], threw |-> FALSE]

\* TAPRegistry.revokeAgent: deleteAll runs after the DELETE, and once more in
\* the catch block when the DELETE or the first deleteAll threw
revokeAgent(t, delete, key1, key2, rm) ==
    LET first  == deleteAll(t, key1, rm)
        second == deleteAll(t, key2, rm)
    IN  IF delete # "threw" /\ ~first.threw
        THEN [tap |-> first.tap, threw |-> FALSE,
              error |-> IF delete = "ok" THEN ""
                        ELSE "Registry revocation may have failed"]
        ELSE IF ~second.threw
        THEN [tap |-> second.tap, threw |-> FALSE,
              error |-> "Registry revocation failed"]
        ELSE [tap |-> t, threw |-> TRUE,
              error |-> "Failed to delete TAP key from keychain"]

\* TAPCredentialManager.isConfigured
isConfigured(t) == t.agent /\ t.key # "none"

\* TAPCredentialManager.isVerified
isVerified(t, clock) == t.expiresAt # NoAttestation /\ t.expiresAt > clock

\* how the registration at the registry can end
RegisterOutcomes == {"registered", "failed"}

\* TAPRegistry.registerAgent: the new key is saved before the registry is
\* called, agent.json after it answered
registerAgent(t, outcome) ==
    IF outcome = "registered" THEN [t EXCEPT !.key = "ok", !.agent = TRUE]
    ELSE [t EXCEPT !.key = "ok"]

tapOthers == <<pc, call, result, history, auditLog, balance, txCount, now,
               calls, initialized, selVars, conVars, toolVars, walVars,
               dispVars, cantonVars, redVars, partyVars>>

\* a wallet whose TAP identity is registered and verified, or not at all
TapInit ==
    /\ pc = "idle"
    /\ call = NoCall
    /\ result = NoResult
    /\ history = <<>>
    /\ auditLog = <<>>
    /\ balance = 0
    /\ txCount = 0
    /\ now = 1
    /\ calls = 0
    /\ initialized = FALSE
    /\ tap \in { TapState(FALSE, NoAttestation, "none"),
                 TapState(TRUE, AttestationExpiry, "ok") }
    /\ SelIdle /\ ConIdle /\ ToolIdle /\ WalIdle /\ DispIdle /\ CantonIdle
    /\ RedIdle /\ PartyIdle
    /\ revocation = NeverRevoked
    /\ tapResult = ""

\* MCPTools.registerAgent (tap_register_agent)
registerAgentTool ==
    \E wallet \in BOOLEAN, outcome \in RegisterOutcomes, logged \in BOOLEAN :
        /\ IF ~wallet
           THEN /\ tapResult' = "error"
                /\ UNCHANGED <<tap, revocation>>
           ELSE IF isConfigured(tap)
           THEN /\ tapResult' = "already_registered"
                /\ UNCHANGED <<tap, revocation>>
           ELSE /\ tap' = registerAgent(tap, outcome)
                /\ revocation' = IF outcome = "registered"
                                 THEN [revocation EXCEPT !.registered = TRUE]
                                 ELSE revocation
                /\ tapResult' = IF outcome = "registered" /\ logged
                                THEN "registered" ELSE "error"
        /\ UNCHANGED tapOthers

\* MCPTools.verifyIdentity (tap_verify_identity): registers first when no
\* agent.json is found, then stores the attestation the registry issued
verifyIdentityTool ==
    \E wallet \in BOOLEAN, outcome \in RegisterOutcomes,
       verified \in BOOLEAN, logged \in BOOLEAN :
        /\ IF ~wallet
           THEN /\ tapResult' = "error"
                /\ UNCHANGED <<tap, revocation>>
           ELSE IF isVerified(tap, now)
           THEN /\ tapResult' = "already_verified"
                /\ UNCHANGED <<tap, revocation>>
           ELSE LET t == IF tap.agent THEN tap ELSE registerAgent(tap, outcome)
                    r == IF ~tap.agent /\ outcome = "registered"
                         THEN [revocation EXCEPT !.registered = TRUE]
                         ELSE revocation
                IN  IF ~tap.agent /\ outcome = "failed"
                    THEN /\ tap' = t
                         /\ revocation' = r
                         /\ tapResult' = "error"
                    ELSE IF ~verified
                    THEN /\ tap' = t
                         /\ revocation' = r
                         /\ tapResult' = "error"
                    ELSE /\ tap' = [t EXCEPT !.expiresAt = AttestationExpiry]
                         /\ revocation' = [r EXCEPT !.verified = TRUE]
                         /\ tapResult' = IF logged THEN "verified" ELSE "error"
        /\ UNCHANGED tapOthers

\* MCPTools.revokeAgent (tap_revoke): nothing is revoked when agent.json is
\* missing; else TAPRegistry.revokeAgent runs and tap_revoked is logged
revokeAgentTool ==
    \E delete \in DeleteOutcomes, key1 \in KeyDeleteOutcomes,
       key2 \in KeyDeleteOutcomes, rm \in RmOutcomes, logged \in BOOLEAN :
        /\ IF ~tap.agent
           THEN /\ tapResult' = "not_registered"
                /\ UNCHANGED <<tap, revocation>>
           ELSE LET r == revokeAgent(tap, delete, key1, key2, rm)
                IN  /\ tap' = r.tap
                    /\ revocation' = IF r.threw THEN revocation ELSE JustRevoked
                    /\ tapResult' = IF r.threw \/ ~logged THEN "error"
                                    ELSE IF r.error # "" THEN "revoked_locally"
                                    ELSE "revoked"
        /\ UNCHANGED tapOthers

\* steps 8-9 of a payment (payment.ts lines 208-216): the TAP headers are
\* attached when TAPSigner.buildHeaders returns them
AttachTapHeaders ==
    /\ buildHeaders(tap, now) = "headers"
    /\ revocation' = [revocation EXCEPT !.attached = revocation.returned]
    /\ tapResult' = "headers attached"
    /\ UNCHANGED <<tap, tapOthers>>

\* time passes: the stored attestation expires at AttestationExpiry
TapTick ==
    /\ now < MaxClock
    /\ now' = now + 1
    /\ UNCHANGED <<pc, call, result, history, auditLog, balance, txCount,
                   calls, initialized, tap, aux>>

TapNext ==
    \/ registerAgentTool
    \/ verifyIdentityTool
    \/ revokeAgentTool
    \/ AttachTapHeaders
    \/ TapTick

SpecTap == TapInit /\ [][TapNext]_vars

(***************************************************************************)
(* The shared Canton SDK: getSDK and the connection attempt it starts.     *)
(***************************************************************************)
NoAttempt == 0
NoConnectionKey == ""

\* getConnectionKey: `${useLocalNet}:${ledgerUrl}:${validatorUrl}` of the
\* environment; the values the environment can spell
ConnectionKeys == {"false:devnet", "true:localnet"}

getConnectionKey == cantonEnv

\* a connection attempt: the key of the environment createDevNetSDK read
\* when it built the SDK, and how far the attempt is
Attempt(key, state) == [key |-> key, state |-> state]

\* one getSDK call: the key at the time of the call, the attempt whose SDK
\* or promise it was handed, and whether that attempt had already failed
SdkCall(asked, attempt, failedBefore) ==
    [asked |-> asked, attempt |-> attempt, failedBefore |-> failedBefore]

cantonOthers == <<payVars, selVars, conVars, toolVars, walVars, dispVars,
                  tapVars, redVars, partyVars>>

CantonInit ==
    /\ PaymentIdle
    /\ SelIdle /\ ConIdle /\ ToolIdle /\ WalIdle /\ DispIdle /\ TapIdle
    /\ RedIdle /\ PartyIdle
    /\ cantonEnv \in ConnectionKeys
    /\ attempts = <<>>
    /\ sdkInstance = NoAttempt
    /\ sdkInitPromise = NoAttempt
    /\ sdkConnectionKey = NoConnectionKey
    /\ sdkCalls = <<>>

\* CANTON_USE_LOCALNET or a Canton URL changes
SetCantonEnv ==
    \E k \in ConnectionKeys \ {cantonEnv} :
        /\ cantonEnv' = k
        /\ UNCHANGED <<attempts, sdkInstance, sdkInitPromise, sdkConnectionKey,
                       sdkCalls, cantonOthers>>

\* getSDK up to its return (lines 119-163): the reset when the shared SDK
\* was made for another key, then the shared SDK, else the pending promise,
\* else a new attempt, which runs createDevNetSDK and awaits sdk.connect
getSDK ==
    LET key   == getConnectionKey
        reset == sdkInstance # NoAttempt /\ sdkConnectionKey # key
        inst  == IF reset THEN NoAttempt ELSE sdkInstance
        prom  == IF reset THEN NoAttempt ELSE sdkInitPromise
        conn  == IF reset THEN NoConnectionKey ELSE sdkConnectionKey
        given == IF inst # NoAttempt THEN inst
                 ELSE IF prom # NoAttempt THEN prom
                 ELSE Len(attempts) + 1
    IN  /\ Len(sdkCalls) < MaxSdkCalls
        /\ given <= MaxAttempts
        /\ attempts' = IF given > Len(attempts)
                       THEN Append(attempts, Attempt(cantonEnv, "pending"))
                       ELSE attempts
        /\ sdkInstance' = inst
        /\ sdkInitPromise' = IF inst # NoAttempt THEN prom ELSE given
        /\ sdkConnectionKey' = conn
        /\ sdkCalls' = Append(sdkCalls,
                           SdkCall(key, given,
                                   given <= Len(attempts)
                                      /\ attempts[given].state = "failed"))
        /\ UNCHANGED <<cantonEnv, cantonOthers>>

\* the attempt connected (lines 134-146): the SDK becomes the shared one and
\* the key of the environment at that moment is recorded for it
ConnectOk ==
    \E a \in 1..Len(attempts) :
        /\ attempts[a].state = "pending"
        /\ attempts' = [attempts EXCEPT ![a].state = "connected"]
        /\ sdkInstance' = a
        /\ sdkConnectionKey' = getConnectionKey
        /\ UNCHANGED <<cantonEnv, sdkInitPromise, sdkCalls, cantonOthers>>

\* the attempt failed (lines 147-157): the promise rejects
ConnectFail ==
    \E a \in 1..Len(attempts) :
        /\ attempts[a].state = "pending"
        /\ attempts' = [attempts EXCEPT ![a].state = "failed"]
        /\ UNCHANGED <<cantonEnv, sdkInstance, sdkInitPromise, sdkConnectionKey,
                       sdkCalls, cantonOthers>>

CantonNext ==
    \/ SetCantonEnv
    \/ getSDK
    \/ ConnectOk
    \/ ConnectFail

SpecCanton == CantonInit /\ [][CantonNext]_vars

(***************************************************************************)
(* x402_redeem_referral, one action per await, for the calls the server    *)
(* has in flight at the same time.  Every call builds its own              *)
(* ReferralManager, which reads codes.json when it is constructed and      *)
(* writes back what it read, changed by markRedeemed.                      *)
(***************************************************************************)
RedeemCall(pos, code, snapshot, payout, res) ==
    [pc |-> pos, code |-> code, snapshot |-> snapshot, payout |-> payout,
     result |-> res]

IdleRedeem == RedeemCall("idle", "", <<>>, 0, RefResult(FALSE, ""))

redOthers == <<payVars, selVars, conVars, toolVars, dispVars, tapVars,
               cantonVars, partyVars, keychainKey, config, walletsGenerated, lastInit,
               refResult>>

\* an initialized wallet, the operator's codes and a funded treasury
RedeemInit ==
    /\ PaymentIdle
    /\ SelIdle /\ ConIdle /\ ToolIdle /\ DispIdle /\ TapIdle /\ CantonIdle
    /\ PartyIdle
    /\ keychainKey = 1
    /\ config = Address(1)
    /\ walletsGenerated = 1
    /\ lastInit = [ran |-> FALSE, force |-> FALSE, key |-> NoKey, config |-> NoConfig]
    /\ codes = CodeBook
    /\ treasuryFunds = InitialTreasury
    /\ payouts = <<>>
    /\ refResult = RefResult(FALSE, "")
    /\ redeems = [p \in Procs |-> IdleRedeem]

\* the call returns
RedeemReturn(p, res) ==
    redeems' = [redeems EXCEPT ![p].pc = "done", ![p].result = res]

RedeemGoto(p, pos) == redeems' = [redeems EXCEPT ![p].pc = pos]

\* lines 1126-1153: the configuration is loaded, a ReferralManager is built
\* from codes.json, the code is validated and the address looked up
RedeemStart(p) ==
    /\ redeems[p].pc = "idle"
    /\ \E code \in CodeInputs :
          LET c == RedeemCall("treasury", code, codes, 0, RefResult(FALSE, ""))
          IN  IF ~validateCode(codes, code).valid
              THEN redeems' = [redeems EXCEPT ![p] =
                       [c EXCEPT !.pc = "done",
                                 !.result = RefResult(FALSE, validateCode(codes, code).error)]]
              ELSE IF hasAddressRedeemed(codes, config)
              THEN redeems' = [redeems EXCEPT ![p] =
                       [c EXCEPT !.pc = "done",
                                 !.result = RefResult(FALSE,
                                     "This wallet has already redeemed a referral code")]]
              ELSE redeems' = [redeems EXCEPT ![p] = c]
    /\ UNCHANGED <<codes, treasuryFunds, payouts, redOthers>>

\* await treasury.loadFromEnvOrKeychain() (lines 1156-1164)
RedeemLoadTreasury(p) ==
    /\ redeems[p].pc = "treasury"
    /\ \E loaded \in BOOLEAN :
          IF loaded THEN RedeemGoto(p, "funds")
          ELSE RedeemReturn(p, RefResult(FALSE, "Treasury not configured. Contact support."))
    /\ UNCHANGED <<codes, treasuryFunds, payouts, redOthers>>

\* the amount of the code the call validated
RedeemAmount(p) ==
    redeems[p].snapshot[Lookup(redeems[p].snapshot, redeems[p].code)].amount

\* await treasury.hasSufficientBalance(amount) (lines 1167-1173)
RedeemCheckFunds(p) ==
    /\ redeems[p].pc = "funds"
    /\ \E answered \in BOOLEAN :
          IF answered /\ treasuryFunds >= RedeemAmount(p)
          THEN RedeemGoto(p, "transfer")
          ELSE RedeemReturn(p, RefResult(FALSE,
                   "Treasury has insufficient balance. Please try again later."))
    /\ UNCHANGED <<codes, treasuryFunds, payouts, redOthers>>

RedeemTransfer_MarksAlways(p) ==
    /\ redeems[p].pc = "transfer"
    /\ \E sent \in BOOLEAN :
          IF sent /\ treasuryFunds >= RedeemAmount(p)
          THEN /\ treasuryFunds' = treasuryFunds - RedeemAmount(p)
               /\ payouts' = Append(payouts,
                                 Payout(config, Normalize(redeems[p].code), FALSE))
               /\ codes' = markRedeemed(redeems[p].snapshot, redeems[p].code,
                                        config, Len(payouts) + 1, now)
               /\ redeems' = [redeems EXCEPT ![p].pc = "log",
                                             ![p].payout = Len(payouts) + 1]
          ELSE /\ RedeemGoto(p, "logFailed")
               /\ codes' = markRedeemed(redeems[p].snapshot, redeems[p].code,
                                        config, NoHash, now)
               /\ UNCHANGED <<treasuryFunds, payouts>>
    /\ UNCHANGED redOthers

\* await treasury.transfer(userAddress, amount) and, when it succeeded,
\* referralManager.markRedeemed(code, userAddress, txHash), which saves the
\* manager's copy of the codes (lines 1176-1192)
RedeemTransfer(p) ==
    /\ redeems[p].pc = "transfer"
    /\ \E sent \in BOOLEAN :
          IF sent /\ treasuryFunds >= RedeemAmount(p)
          THEN /\ treasuryFunds' = treasuryFunds - RedeemAmount(p)
               /\ payouts' = Append(payouts,
                                 Payout(config, Normalize(redeems[p].code), FALSE))
               /\ codes' = markRedeemed(redeems[p].snapshot, redeems[p].code,
                                        config, Len(payouts) + 1, now)
               /\ redeems' = [redeems EXCEPT ![p].pc = "log",
                                             ![p].payout = Len(payouts) + 1]
          ELSE /\ RedeemGoto(p, "logFailed")
               /\ UNCHANGED <<codes, treasuryFunds, payouts>>
    /\ UNCHANGED redOthers

\* await AuditLogger.logAction('referral_redemption_failed') and return
\* (lines 1178-1189)
RedeemLogFailed(p) ==
    /\ redeems[p].pc = "logFailed"
    /\ \E logged \in BOOLEAN :
          RedeemReturn(p, RefResult(FALSE, IF logged THEN "Transfer failed"
                                           ELSE "audit log failed"))
    /\ UNCHANGED <<codes, treasuryFunds, payouts, redOthers>>

\* await AuditLogger.logAction('referral_redeemed') and return (lines
\* 1195-1213)
RedeemLog(p) ==
    /\ redeems[p].pc = "log"
    /\ \E logged \in BOOLEAN :
          /\ RedeemReturn(p, IF logged THEN RefResult(TRUE, "")
                             ELSE RefResult(FALSE, "audit log failed"))
          /\ payouts' = [payouts EXCEPT ![redeems[p].payout].reported = logged]
    /\ UNCHANGED <<codes, treasuryFunds, redOthers>>

RedeemNext ==
    \E p \in Procs :
        \/ RedeemStart(p)
        \/ RedeemLoadTreasury(p)
        \/ RedeemCheckFunds(p)
        \/ RedeemTransfer(p)
        \/ RedeemLogFailed(p)
        \/ RedeemLog(p)

SpecRedeem == RedeemInit /\ [][RedeemNext]_vars

(***************************************************************************)
(* The Canton party: canton_configure and ensureParty, which every Canton  *)
(* operation calls first.                                                  *)
(***************************************************************************)
Credentials(partyId, privateKey) == [partyId |-> partyId, privateKey |-> privateKey]

\* CantonKeychain.getCredentials() returns null
NoCredentials == Credentials("", FALSE)

\* the partyId argument of canton_configure; "" when it is left out
PartyArgs == {"", "party-A", "party-B"}

\* the party signAndAllocateExternalParty allocates
AllocatedParty == "party-new"

CantonOperations == {"balance", "holdings", "party info", "transfer", "history"}

CantonOp(op, party, configured) ==
    [op |-> op, party |-> party, configured |-> configured]

partyOthers == <<payVars, selVars, conVars, toolVars, walVars, dispVars,
                 tapVars, cantonVars, redVars>>

\* a machine whose keychain holds no Canton credentials, or those of a party
\* created earlier
PartyInit ==
    /\ PaymentIdle
    /\ SelIdle /\ ConIdle /\ ToolIdle /\ WalIdle /\ DispIdle /\ TapIdle
    /\ CantonIdle /\ RedIdle
    /\ cantonKeychain \in {NoCredentials, Credentials("party-old", TRUE)}
    /\ cantonParty = ""
    /\ configuredAs = ""
    /\ cantonOps = <<>>

\* configure of sdk-client.ts (lines 425-486): what it stores in the
\* keychain and the partyId it answers; allocated is FALSE when getSDK or the
\* allocation of a new party failed
configure(kc, partyId, privateKey, allocated) ==
    IF partyId = ""
    THEN IF allocated
         THEN [success |-> TRUE, partyId |-> AllocatedParty,
               keychain |-> Credentials(AllocatedParty, TRUE)]
         ELSE [success |-> FALSE, partyId |-> "", keychain |-> kc]
    ELSE IF privateKey
    THEN [success |-> TRUE, partyId |-> partyId,
          keychain |-> Credentials(partyId, TRUE)]
    ELSE [success |-> TRUE, partyId |-> partyId, keychain |-> kc]

\* MCPTools.cantonConfigure (canton_configure): configure, then the party is
\* saved in config.canton and the change is logged
cantonConfigure ==
    \E partyId \in PartyArgs, privateKey \in BOOLEAN, allocated \in BOOLEAN,
       saved \in BOOLEAN, logged \in BOOLEAN :
        LET r == configure(cantonKeychain, partyId, privateKey, allocated)
        IN  /\ cantonKeychain' = r.keychain
            /\ cantonParty' = IF r.success /\ saved THEN r.partyId ELSE cantonParty
            /\ configuredAs' = IF r.success /\ saved /\ logged THEN partyId
                               ELSE configuredAs
            /\ UNCHANGED <<cantonOps, partyOthers>>

\* ensureParty (lines 168-204): the party of the keychain credentials when
\* there are any, else config.partyId, else a newly allocated party, whose
\* credentials are saved
ensureParty(kc, partyId) ==
    IF kc # NoCredentials THEN [partyId |-> kc.partyId, keychain |-> kc]
    ELSE IF partyId # "" THEN [partyId |-> partyId, keychain |-> kc]
    ELSE [partyId |-> AllocatedParty, keychain |-> Credentials(AllocatedParty, TRUE)]

\* a Canton tool (balance, holdings, party info, transfer, history) gets as
\* far as ensureParty and runs as the party it selects; a transfer needs a
\* signing key in the keychain
CantonOperation ==
    \E op \in CantonOperations :
        LET e == ensureParty(cantonKeychain, cantonParty)
        IN  /\ Len(cantonOps) < MaxCantonOps
            /\ op = "transfer" => cantonKeychain.privateKey
            /\ cantonKeychain' = e.keychain
            /\ cantonOps' = Append(cantonOps, CantonOp(op, e.partyId, configuredAs))
            /\ UNCHANGED <<cantonParty, configuredAs, partyOthers>>

PartyNext == cantonConfigure \/ CantonOperation

SpecParty == PartyInit /\ [][PartyNext]_vars

(***************************************************************************)
(* Properties.                                                             *)
(***************************************************************************)
\* positions in the trace of the call in flight where collaborator ev was
\* called
Calls(ev) == { i \in 1..Len(call.trace) : call.trace[i].ev = ev }

\* positions where an audit entry of one of the kinds was handed to logAction
AuditCalls(kinds) ==
    { i \in Calls("audit") : call.trace[i].kind \in kinds }

\* positions where an audit entry of one of the kinds was written
AuditWritten(kinds) == { i \in AuditCalls(kinds) : call.trace[i].ok }

\* positions of the retried merchant request
RetryCalls == { i \in Calls("request") : call.trace[i].kind = "retry" }

\* the initial request of the call in flight has been answered
Answered == call.initialResponse # NoResponse

\* C1: a request whose initial response status is not 402 returns at once
\* with success:true and the original body, whatever the body is, with no
\* spend-limit check, balance check or transfer.
C1_NonPaymentReturnsBody ==
    (Answered /\ call.initialResponse.status # PaymentRequired)
        => /\ pc = "done"
           /\ result.kind = "returned"
           /\ result.success
           /\ result.response = ResponseData(call.initialResponse.body)
           /\ Calls("limit") = {} /\ Calls("balance") = {} /\ Calls("transfer") = {}

\* the balance collaborator reported balance < required amount
ReportedInsufficient ==
    \E i \in Calls("balance") : call.trace[i].kind = "insufficient"

\* C2: when the balance check reports an underfunded wallet, executePayment
\* returns success:false with an 'Insufficient balance' message, the transfer
\* is never called and no TransactionRecord is appended.
C2_UnderfundedStops ==
    ReportedInsufficient
        => /\ pc = "done"
           /\ result = Failure("Insufficient balance")
           /\ Calls("transfer") = {}
           /\ Len(history) = call.historyAtStart

C2_Witness ==
    /\ pc = "done"
    /\ ReportedInsufficient
    /\ call.initialResponse.status = PaymentRequired
    /\ call.amount > balance

\* the Spend-Limit Guard rejected the amount
LimitRejected ==
    \E i \in Calls("limit") : call.trace[i].kind = "invalid"

\* C3: every transfer is preceded by a spend-limit validation of the selected
\* option's amount that accepted it, and when the validation rejects the
\* amount the call returns success:false without calling the balance
\* collaborator or the transfer.
C3_LimitBeforeFunds ==
    /\ \A i \in Calls("transfer") :
          \E j \in Calls("limit") :
              /\ j < i
              /\ call.trace[j].kind = "valid"
              /\ call.trace[j].n = parseAmount(call.paymentOption.maxAmountRequired)
    /\ LimitRejected
          => /\ pc = "done"
             /\ result.kind = "returned" /\ ~result.success
             /\ Calls("balance") = {} /\ Calls("transfer") = {}

C3_Witness ==
    /\ pc = "done"
    /\ LimitRejected
    /\ call.amount > MaxTransactionAmount

\* the 402 body is missing, not JSON, lacks x402Version, has a non-array
\* accepts or an empty accepts list
MalformedChallenge(b) ==
    \/ b.kind \in {"absent", "text"}
    \/ ~b.hasVersion
    \/ b.acceptsKind # "array"
    \/ Len(b.accepts) = 0

\* C4: a 402 whose body is missing, not JSON, without x402Version, with a
\* non-array or empty accepts fails with a structured success:false result,
\* and nothing but the initial request was performed.
C4_InvalidChallengeFails ==
    (Answered /\ call.initialResponse.status = PaymentRequired
              /\ MalformedChallenge(call.initialResponse.body))
        => /\ pc = "done"
           /\ result.kind = "returned" /\ ~result.success
           /\ Len(call.trace) = 1
           /\ Len(history) = call.historyAtStart

C4_Witness ==
    /\ pc = "done"
    /\ call.initialResponse.status = PaymentRequired
    /\ call.initialResponse.body.kind = "object"
    /\ ~call.initialResponse.body.hasVersion
    /\ Len(call.initialResponse.body.accepts) > 0
    /\ result = Failure("Invalid x402 response format")

\* C5: executePayment never propagates an exception to its caller.
C5_NeverThrows == result.kind # "threw"

\* the transfer was attempted and did not go through (it reverted, threw or
\* produced no transaction hash)
TransferDidFail == \E i \in Calls("transfer") : ~call.trace[i].ok

\* C6: when the transfer reverts, throws or returns no hash, executePayment
\* returns the success:false transfer-failed result and the retried merchant
\* request is never issued.
C6_TransferFailedNoRetry ==
    TransferDidFail
        => /\ RetryCalls = {}
           /\ pc = "done" => result = Failure("USDC transfer failed")

\* the retried request was answered with a 2xx status
RetrySucceeded ==
    /\ call.paymentResponse # NoResponse
    /\ call.paymentResponse.status >= 200
    /\ call.paymentResponse.status < 300

\* the records appended by the call in flight
Appended == SubSeq(history, call.historyAtStart + 1, Len(history))

\* record r carries the amount, service and settlement id of the result
MatchesResult(r) ==
    /\ r.amount = result.amountPaid
    /\ r.service = result.service
    /\ r.txHash = result.txHash

\* C7: when the retried request returns 2xx, exactly one TransactionRecord
\* with status 'success' is appended, and a later history listing returns a
\* record with the amountPaid, service and txHash of the returned result.
C7_RecordRoundTrip ==
    (pc = "done" /\ RetrySucceeded)
        => /\ Len(Appended) = 1
           /\ Appended[1].status = "success"
           /\ result.kind = "returned"
           /\ MatchesResult(Appended[1])
           /\ \A limit \in ListLimits :
                 \E i \in 1..transactionHistory(limit).count :
                     MatchesResult(transactionHistory(limit).transactions[i])

OutcomeKinds == {"payment_executed", "payment_failed", "payment_error"}

\* C8: audit entries bracket every fund movement.  Before each transfer a
\* payment_approved entry has been written; once the call has ended an
\* outcome entry (payment_executed, payment_failed or payment_error) has been
\* handed to the audit logger after the transfer, and when executePayment
\* returns a result such an entry has been written.
C8_AuditBrackets ==
    \A i \in Calls("transfer") :
        /\ \E j \in AuditWritten({"payment_approved"}) : j < i
        /\ pc = "done"
              => /\ \E k \in AuditCalls(OutcomeKinds) : k > i
                 /\ result.kind = "returned"
                       => \E k \in AuditWritten(OutcomeKinds) : k > i

C8_Witness ==
    /\ pc = "done"
    /\ result.kind = "returned"
    /\ \E i \in Calls("transfer") : call.trace[i].ok
    /\ call.paymentResponse.status = PaymentRequired
    /\ AuditWritten({"payment_failed"}) # {}

\* TAPSigner.buildHeaders threw or returned null
TapUnavailable ==
    \E i \in Calls("tap") : call.trace[i].kind \in {"throws", "null"}

\* C9: a failure to build the TAP headers never aborts the payment: the
\* retried merchant request is still sent and the result is the one the
\* merchant's response determines.
C9_TapFailureDoesNotAbort ==
    (pc = "done" /\ TapUnavailable)
        => /\ RetryCalls # {}
           /\ call.paymentResponse # NoResponse => result.kind = "returned"
           /\ RetrySucceeded => result.success
           /\ (call.paymentResponse # NoResponse /\ ~RetrySucceeded)
                 => result = Failure(ErrorMessage(call.paymentResponse))

\* the signing key is present and the stored attestation had expired when
\* the TAP headers were built
ExpiredWithKey ==
    /\ tap.agent /\ tap.key = "ok" /\ tap.expiresAt # NoAttestation
    /\ \E i \in Calls("tap") : tap.expiresAt <= call.trace[i].n

\* C10: with the signing key present and the attestation expired,
\* buildHeaders returns null, the payment still completes, and the audit
\* entries of that payment contain tap_headers_skipped and no failure entry.
C10_ExpiredAttestationSkipped ==
    (pc = "done" /\ ExpiredWithKey /\ RetrySucceeded /\ result.success)
        => /\ \A i \in Calls("tap") : call.trace[i].kind = "null"
           /\ AuditWritten({"tap_headers_skipped"}) # {}
           /\ AuditCalls({"payment_failed", "payment_error"}) = {}

\* every element of the accepts array is a payment option object
AllOptions(list) == \A i \in 1..Len(list) : list[i].kind = "obj"

\* the accepts array lists an option of that scheme and network
Offers(list, scheme, network) ==
    \E i \in 1..Len(list) :
        /\ list[i].kind = "obj"
        /\ list[i].scheme = scheme
        /\ list[i].network = network

\* C11: for every accepts list of payment options that contains an 'exact'
\* option on network 'base', selectPaymentOption returns an 'exact' option on
\* 'base' taken from the list, wherever it sits in the list.
C11_PrefersBaseExact ==
    (selected # Unselected /\ AllOptions(accepts) /\ Offers(accepts, "exact", "base"))
        => /\ selected.scheme = "exact"
           /\ selected.network = "base"
           /\ \E i \in 1..Len(accepts) : accepts[i] = selected

C11_Witness ==
    /\ Len(accepts) = MaxAccepts
    /\ AllOptions(accepts)
    /\ accepts[1].scheme = "exact" /\ accepts[1].network = "solana"
    /\ accepts[2].scheme = "upto"
    /\ selected = accepts[MaxAccepts]
    /\ selected.scheme = "exact" /\ selected.network = "base"

\* C12: for every non-empty accepts list of payment options none of which
\* has scheme 'exact', selectPaymentOption returns the first listed option.
C12_FallsBackToFirst ==
    (selected # Unselected /\ Len(accepts) > 0 /\ AllOptions(accepts)
        /\ \A i \in 1..Len(accepts) : accepts[i].scheme # "exact")
        => selected = accepts[1]

C12_Witness ==
    /\ Len(accepts) > 1
    /\ AllOptions(accepts)
    /\ \A i \in 1..Len(accepts) : accepts[i].scheme # "exact"
    /\ accepts[1] # accepts[2]
    /\ selected = accepts[1]

\* what the wallet had spent today before the concurrent calls started
SpentBefore ==
    getDailySpend(SelectSeq(history, LAMBDA r : r.timestamp = 0))

\* C13: of two concurrent executePayment calls of one wallet, it never
\* happens that both pass the spend-limit check, the second while the first
\* is still in flight, when their amounts plus the amount already spent today
\* exceed the daily cap.
C13_DailyCapSerialized ==
    \A p \in Procs : \A q \in inflight[p].overlapped :
        SpentBefore + inflight[p].amount + inflight[q].amount <= DailyLimit

\* the concurrent calls that built a payment proof
WithProof == { p \in Procs : inflight[p].nonce # NoNonce }

\* C14: no two payment attempts of the wallet carry the same nonce in their
\* payment proof.
C14_NoncesDiffer ==
    \A p \in WithProof : \A q \in WithProof \ {p} :
        inflight[p].nonce # inflight[q].nonce

\* the transfer of the call in flight moved the funds
FundsMoved == \E i \in Calls("transfer") : call.trace[i].ok

\* C15: once an attempt has ended, exactly one TransactionRecord has been
\* created for it when its transfer moved funds and the merchant answered
\* the retried request (with a 2xx status or not), and none when it moved no
\* funds.
C15_RecordPerFundedAttempt ==
    pc = "done"
        => /\ (FundsMoved /\ call.paymentResponse # NoResponse)
                 => Len(Appended) = 1
           /\ ~FundsMoved => Len(Appended) = 0

\* C16: audit logging is fire-and-forget: a payment whose transfer succeeded,
\* whose retried request returned 2xx and whose record was appended is
\* reported success:true, whether or not an AuditLogger.logAction call
\* failed.
C16_AuditFireAndForget ==
    (pc = "done" /\ FundsMoved /\ RetrySucceeded /\ Len(Appended) = 1)
        => /\ result.kind = "returned"
           /\ result.success

\* C17: when maxAmount is given, x402_payment_request executes no transfer
\* of more than maxAmount.
C17_NeverPaysMoreThanMax ==
    maxAmount # 0
        => \A i \in Calls("transfer") : call.trace[i].n <= maxAmount

\* the amounts (micro-USDC) the collaborator ev was asked about
Checked(ev) == { call.trace[j].n : j \in Calls(ev) }

\* C18: every transfer submitted goes to the selected option's payTo, for the
\* base-unit amount of its maxAmountRequired, and that amount is the one that
\* was checked against the spend limits and the balance and, when the payment
\* succeeds, the one reported as amountPaid.
C18_TransfersCheckedAmount ==
    \A i \in Calls("transfer") :
        /\ call.trace[i].kind = call.paymentOption.payTo
        /\ Checked("limit") = {call.trace[i].n}
        /\ Checked("balance") = {call.trace[i].n}
        /\ (pc = "done" /\ result.kind = "returned" /\ result.success)
              => result.amountPaid = call.trace[i].n

\* C19: a wallet redeems at most once: after x402_redeem_referral has
\* answered success for a wallet address, no treasury transfer is made to
\* that address again, whatever the code and its maxUses.
C19_OneRedemptionPerWallet ==
    \A i \in 1..Len(payouts) : \A j \in 1..Len(payouts) :
        (i < j /\ payouts[i].reported)
            => ToLowerCase(payouts[j].to) # ToLowerCase(payouts[i].to)

\* C20: `clawd init` without --force, started where a keychain key or a
\* config exists, leaves the key and the config as they were.
C20_InitIdempotent ==
    (lastInit.ran /\ ~lastInit.force
        /\ (lastInit.key # NoKey \/ lastInit.config # NoConfig))
        => /\ keychainKey = lastInit.key
           /\ config = lastInit.config

\* C21: every tool advertised through ListTools is dispatched by the CallTool
\* handler: a call to an advertised tool never ends in 'Unknown tool'.
C21_AdvertisedToolsDispatched ==
    \A i \in 1..Len(dispatchLog) :
        dispatchLog[i].name \in ListTools
            => /\ dispatchLog[i].method # ""
               /\ dispatchLog[i].error # UnknownTool(dispatchLog[i].name)

\* positions in the trace where a step of the payment flow ran: a merchant
\* request, the limit check, the balance check, the transfer, the append to
\* the history
StepCalls ==
    { i \in 1..Len(call.trace) :
        call.trace[i].ev \in {"request", "limit", "balance", "transfer", "history"} }

\* the step at position i failed: it threw, or it rejected the payment
StepFailed(i) ==
    \/ ~call.trace[i].ok
    \/ call.trace[i].kind \in {"invalid", "insufficient"}

\* no step of the call in flight ran twice
NoStepReentered ==
    /\ Cardinality(Calls("request")) <= 2
    /\ Cardinality({ i \in Calls("request") : call.trace[i].kind = "initial" }) <= 1
    /\ Cardinality(RetryCalls) <= 1
    /\ Cardinality(Calls("transfer")) <= 1
    /\ Cardinality(Calls("limit")) <= 1
    /\ Cardinality(Calls("balance")) <= 1
    /\ Cardinality(Calls("history")) <= 1

\* C22: within one executePayment call no step is re-entered (at most two
\* merchant requests, the initial one and one retry, and at most one
\* transfer), and a failure at any step ends the call in a failed result
\* without executing any later step.
C22_NoStepReentered ==
    /\ NoStepReentered
    /\ \A i \in StepCalls :
          StepFailed(i)
             => /\ \A j \in StepCalls : j <= i
                /\ pc = "done" => result.kind = "returned" /\ ~result.success

\* the retried request of the call in flight was answered with a non-2xx
\* status
RetryRefused ==
    /\ call.paymentResponse # NoResponse
    /\ ~IsSuccessStatus(call.paymentResponse.status)

\* the error text the documentation promises for a refused retry
RefusedText ==
    LET b == call.paymentResponse.body
    IN  IF b.kind = "object" /\ b.error # "" THEN b.error
        ELSE IF b.kind = "object" /\ b.message # "" THEN b.message
        ELSE StatusText(call.paymentResponse.status)

\* C23: when the retried request returns non-2xx, the error of the returned
\* result is the body's `error` field if present, else its `message` field if
\* present, else 'Payment failed with status N' (also when the body is absent
\* or not JSON).
C23_RefusedErrorText ==
    (pc = "done" /\ RetryRefused)
        => /\ result.kind = "returned"
           /\ ~result.success
           /\ result.error = RefusedText

\* positions where an audit entry was written that names the transaction
\* hash of the call's transfer
HashLogged ==
    { i \in Calls("audit") :
        /\ call.trace[i].ok
        /\ AuditTxHash(call.trace[i].kind, call) = call.transferResult.txHash }

\* C24: if the transfer succeeded and the call then ends without a 2xx
\* retried response (the merchant answers non-2xx, or an exception occurs
\* before or during the retried request), an audit entry of the attempt has
\* been written that identifies the moved funds by the transfer's
\* transaction hash.  (Stated for the calls that return a result: those are
\* the calls whose outcome entry was written.)
C24_MovedFundsLoggedByHash ==
    (pc = "done" /\ result.kind = "returned" /\ FundsMoved /\ ~RetrySucceeded)
        => HashLogged # {}

\* TAPRegistry.revokeAgent has returned and no new registration and
\* verification have both completed since
RevokedPending ==
    /\ revocation.returned
    /\ ~(revocation.registered /\ revocation.verified)

\* C25: after TAPRegistry.revokeAgent returns, whether the registry DELETE
\* succeeded, returned an error status or threw, the local TAP credentials
\* are deleted, so TAPSigner.buildHeaders returns null and no payment attaches
\* TAP headers until a new registration and verification complete.
C25_RevokedMeansNoTapHeaders ==
    RevokedPending
        => /\ buildHeaders(tap, now) = "null"
           /\ ~revocation.attached

\* C26: getSDK resets and reconnects whenever CANTON_USE_LOCALNET or the
\* Canton URLs changed since the shared SDK or the pending connection
\* attempt was created: no call is handed an SDK, or awaits an attempt, built
\* for a connection key other than the one in force at the call.
C26_SdkMatchesConnectionKey ==
    \A i \in 1..Len(sdkCalls) :
        attempts[sdkCalls[i].attempt].key = sdkCalls[i].asked

\* C27: a failed Canton connection attempt is not cached forever: a getSDK
\* call made after an attempt failed is not handed that attempt's rejected
\* promise but starts a new attempt.
C27_FailedAttemptNotCached ==
    \A i \in 1..Len(sdkCalls) : ~sdkCalls[i].failedBefore

\* the treasury payouts made for a code
PayoutsFor(code) == { i \in 1..Len(payouts) : payouts[i].code = code }

\* C28: after any sequence or interleaving of x402_redeem_referral calls, the
\* number of treasury payouts made for a referral code never exceeds that
\* code's maxUses.
C28_PayoutsWithinMaxUses ==
    \A i \in 1..Len(codes) :
        Cardinality(PayoutsFor(codes[i].code)) <= codes[i].maxUses

\* the step ends the treasury part of call p without a payout: the treasury
\* is not configured, lacks funds, or its transfer failed
TreasuryFailedStep(p) ==
    /\ redeems[p].pc \in {"treasury", "funds", "transfer"}
    /\ redeems'[p].pc \in {"done", "logFailed"}

\* C29: if the treasury is not configured, lacks funds, or its transfer fails
\* during x402_redeem_referral, the referral code's stored state (useCount,
\* redeemedAt, redeemedBy, txHash) is unchanged, and the code remains
\* redeemable (unless another call redeemed it meanwhile).
C29_TreasuryFailureKeepsCode ==
    [][\A p \in Procs :
          TreasuryFailedStep(p)
             => /\ codes' = codes
                /\ codes = redeems[p].snapshot
                      => validateCode(codes', redeems[p].code).valid]_vars

C29_Witness ==
    \E p \in Procs :
        /\ redeems[p].pc = "done"
        /\ redeems[p].result = RefResult(FALSE, "Transfer failed")
        /\ payouts = <<>>
        /\ codes = CodeBook
        /\ validateCode(codes, redeems[p].code).valid

\* C30: after canton_configure succeeded with an explicit partyId P, every
\* subsequent Canton operation runs as party P: ensureParty never selects a
\* different party left over in the keychain.
C30_RunsAsConfiguredParty ==
    \A i \in 1..Len(cantonOps) :
        cantonOps[i].configured # "" => cantonOps[i].party = cantonOps[i].configured

====
